---- MODULE Spec2Model ----
(***************************************************************************)
(* Aula Inteligente: the geofenced attendance session engine of            *)
(* app/crud/sesion_asistencia.py, the final-score aggregation of           *)
(* app/routers/rendimiento_final.py, and the ledger writes of              *)
(* app/routers/evaluaciones.py with the low-grade notification trigger of  *)
(* app/services/notification_service.py, over the relational store.        *)
(*                                                                         *)
(* The store holds committed rows only.  A request is a process p; every   *)
(* action is one step of a handler between two points where the store is   *)
(* read or committed, so that requests can interleave exactly where the    *)
(* code lets them.  Spec runs one request at a time to completion;         *)
(* SpecConc interleaves the steps of several requests; SpecRend runs the   *)
(* aggregation over a given ledger and given weights; SpecNotif runs the   *)
(* ledger writes and the notification operations one request at a time.    *)
(***************************************************************************)
EXTENDS Integers, Sequences, FiniteSets

VARIABLES
    now,            \* datetime.now(), in ticks
    tipos,          \* names of the TipoEvaluacion rows
    sesiones,       \* table SesionAsistencia, row id = index
    asistencias,    \* table AsistenciaEstudiante, row id = index
    evaluaciones,   \* table Evaluacion (the grade ledger), row id = index
    pesos,          \* table PesoTipoEvaluacion, row id = index
    rendimientos,   \* table RendimientoFinal, row id = index
    notificaciones, \* table Notificacion, row id = index
    pc,             \* per request slot: where the handler stands
    loc,            \* per request slot: the handler's local variables
    ult,            \* the response a handler has just returned, until it is delivered
    solapes         \* how many requests have started while another was in flight

vars == <<now, tipos, sesiones, asistencias, evaluaciones, pesos, rendimientos,
          notificaciones, pc, loc, ult, solapes>>
store == <<tipos, sesiones, asistencias, evaluaciones, pesos, rendimientos,
           notificaciones>>

---------------------------------------------------------------------------
(* Bounds of the model *)

MaxSesiones == 2        \* rows of SesionAsistencia ever created
MaxTime == 1            \* the clock runs 0..MaxTime
MaxPos == 2             \* the farthest student latitude, in grid steps
MaxSolapes == 1         \* SpecConc: requests that start while another is in flight

Procs == {1, 2}         \* request slots of SpecConc
ProcsSeq == {1}         \* the one request slot of Spec
Docentes == {1}
Cursos == {1, 2}
Materias == {1}
Periodos == {1}
Estudiantes == {1, 2}
DiaLen == 1             \* ticks per calendar day
Tolerancias == {0, 1}   \* minutos_tolerancia a teacher may choose
Radios == {1}           \* radio_permitido_metros, in grid steps
Latitudes == {1, MaxPos} \* where a student may report to be: on the edge of the
                        \* permitted radius, or beyond it

\* table Inscripcion as (estudiante_id, curso_id): both students are enrolled
\* in course 1, nobody in course 2
Inscripciones == {<<1, 1>>, <<2, 1>>}

Nulo == <<>>
Algun(x) == <<x>>

Vacio == [op |-> "none"]

\* no response pending
SinRespuesta == [op |-> "none", res |-> "none", sid |-> 0, est |-> 0, arg |-> 0]

Respuesta(op, res, sid, est, arg) ==
    [op |-> op, res |-> res, sid |-> sid, est |-> est, arg |-> arg]

\* a handler starts, or goes on, only once the last response is delivered
Libre == ult.op = "none"

\* request p arrives; it may arrive while another request is between two of
\* its steps, which happens at most MaxSolapes times in a behaviour
Inicio(p) ==
    /\ pc[p] = "idle"
    /\ Libre
    /\ IF \E q \in DOMAIN pc : q # p /\ pc[q] # "idle"
       THEN solapes < MaxSolapes /\ solapes' = solapes + 1
       ELSE UNCHANGED solapes

\* request p goes on from the step named paso
Sigue(p, paso) ==
    /\ pc[p] = paso
    /\ Libre
    /\ UNCHANGED solapes

---------------------------------------------------------------------------
(* Helpers over the tables *)

Ids(tabla) == DOMAIN tabla

\* func.date(...): the calendar day of a timestamp
Fecha(t) == t \div DiaLen

RECURSIVE SeqDe(_)
\* the elements of a finite set of integers as a sequence, in increasing order
\* (the order the rows of a query come back in)
SeqDe(S) ==
    IF S = {} THEN <<>>
    ELSE LET m == CHOOSE x \in S : \A y \in S : x <= y
         IN <<m>> \o SeqDe(S \ {m})

\* .first() of a query that matches the rows with ids S: the first row, or 0
\* for None
Primero(S) ==
    IF S = {} THEN 0 ELSE CHOOSE i \in S : \A j \in S : i <= j

---------------------------------------------------------------------------
(* crear_sesion_asistencia *)

\* the row built from SesionAsistenciaCreate; estado defaults to 'activa'
NuevaSesion(datos, docente_id) ==
    [docente_id |-> docente_id,
     curso_id |-> datos.curso_id,
     materia_id |-> datos.materia_id,
     periodo_id |-> datos.periodo_id,
     fecha_inicio |-> datos.fecha_inicio,
     minutos_tolerancia |-> datos.minutos_tolerancia,
     latitud_docente |-> datos.latitud_docente,
     radio_permitido_metros |-> datos.radio_permitido_metros,
     estado |-> "activa",
     fecha_fin |-> Nulo]

DatosCrear ==
    [curso_id : Cursos, materia_id : Materias, periodo_id : Periodos,
     fecha_inicio : {now}, minutos_tolerancia : Tolerancias,
     latitud_docente : {0}, radio_permitido_metros : Radios]

\* the query of lines 76-87: an 'activa' session of the same docente, curso, materia
SesionExistenteMut(docente_id, datos) ==
    Primero({i \in Ids(sesiones) :
        /\ sesiones[i].docente_id = docente_id
        /\ sesiones[i].curso_id = datos.curso_id
        /\ sesiones[i].materia_id = datos.materia_id
        /\ sesiones[i].estado = "cerrada"})

SesionExistente(docente_id, datos) ==
    Primero({i \in Ids(sesiones) :
        /\ sesiones[i].docente_id = docente_id
        /\ sesiones[i].curso_id = datos.curso_id
        /\ sesiones[i].materia_id = datos.materia_id
        /\ sesiones[i].estado = "activa"})

\* lines 76-90: the check; raises, or goes on to the insert
crear_sesion_asistencia_verificar(p) ==
    /\ Inicio(p)
    /\ Len(sesiones) < MaxSesiones
    /\ \E datos \in DatosCrear, docente_id \in Docentes :
        IF SesionExistente(docente_id, datos) # 0
        THEN /\ ult' = Respuesta("crear", "conflict", 0, 0,
                        [datos |-> datos, docente_id |-> docente_id])
             /\ UNCHANGED <<pc, loc>>
        ELSE /\ pc' = [pc EXCEPT ![p] = "crear_insertar"]
             /\ loc' = [loc EXCEPT ![p] =
                    [op |-> "crear", datos |-> datos, docente_id |-> docente_id]]
             /\ UNCHANGED ult
    /\ UNCHANGED <<now, store>>

\* lines 92-97: db.add(sesion); db.commit(); db.refresh(sesion)
crear_sesion_asistencia_insertar(p) ==
    /\ Sigue(p, "crear_insertar")
    /\ sesiones' = Append(sesiones, NuevaSesion(loc[p].datos, loc[p].docente_id))
    /\ pc' = [pc EXCEPT ![p] = "crear_registros"]
    /\ loc' = [loc EXCEPT ![p] =
            [op |-> "crear", datos |-> loc[p].datos,
             docente_id |-> loc[p].docente_id, sid |-> Len(sesiones) + 1]]
    /\ UNCHANGED <<now, tipos, asistencias, evaluaciones, ult, pesos, rendimientos,
                 notificaciones>>

\* lines 109-111: the students of the Inscripcion rows of the session's course
InscritosMut(curso_id) == {i[1] : i \in Inscripciones}

Inscritos(curso_id) == {i[1] : i \in {j \in Inscripciones : j[2] = curso_id}}

NuevaAsistencia(sesion_id, estudiante_id) ==
    [sesion_id |-> sesion_id,
     estudiante_id |-> estudiante_id,
     presente |-> FALSE,
     es_tardanza |-> FALSE,
     justificado |-> FALSE,
     fecha_marcado |-> Nulo,
     latitud_estudiante |-> Nulo,
     distancia_metros |-> Nulo]

RECURSIVE RegistrosDe(_, _)
RegistrosDe(sesion_id, ests) ==
    IF ests = <<>> THEN <<>>
    ELSE <<NuevaAsistencia(sesion_id, Head(ests))>> \o RegistrosDe(sesion_id, Tail(ests))

\* lines 105-119, called at line 100: one row per enrolled student, then commit
crear_registros_asistencia_estudiantes(p) ==
    /\ Sigue(p, "crear_registros")
    /\ LET sid == loc[p].sid
           curso == sesiones[sid].curso_id
       IN /\ asistencias' = asistencias \o RegistrosDe(sid, SeqDe(Inscritos(curso)))
          /\ ult' = Respuesta("crear", "ok", sid, 0,
                        [datos |-> loc[p].datos, docente_id |-> loc[p].docente_id])
    /\ pc' = [pc EXCEPT ![p] = "idle"]
    /\ loc' = [loc EXCEPT ![p] = Vacio]
    /\ UNCHANGED <<now, tipos, sesiones, evaluaciones, pesos, rendimientos,
                 notificaciones>>

\* the request dies between the commit of line 96 and the commit of line 119
\* (the second transaction fails): the session row stays committed
crear_sesion_asistencia_falla(p) ==
    /\ Sigue(p, "crear_registros")
    /\ ult' = Respuesta("crear", "error", loc[p].sid, 0,
                [datos |-> loc[p].datos, docente_id |-> loc[p].docente_id])
    /\ pc' = [pc EXCEPT ![p] = "idle"]
    /\ loc' = [loc EXCEPT ![p] = Vacio]
    /\ UNCHANGED <<now, store>>

---------------------------------------------------------------------------
(* cerrar_sesion_asistencia and sincronizar_con_evaluaciones *)

IdAsistencia == 5       \* id of the TipoEvaluacion row named 'Asistencia'

\* lines 214-218: the TipoEvaluacion row named 'Asistencia', or 0
TipoAsistencia == IF "Asistencia" \in tipos THEN IdAsistencia ELSE 0

\* lines 258-267
calcular_valor_asistencia_mut(asistencia) ==
    IF asistencia.presente
    THEN 100
    ELSE IF asistencia.justificado THEN 75 ELSE 0

calcular_valor_asistencia(asistencia) ==
    IF asistencia.presente
    THEN (IF asistencia.es_tardanza THEN 50 ELSE 100)
    ELSE IF asistencia.justificado THEN 75 ELSE 0

\* lines 226-238: the ledger row of this student, subject, period, type and day
EvaluacionExistente(evals, asistencia, sesion, tipo_id) ==
    Primero({i \in Ids(evals) :
        /\ evals[i].estudiante_id = asistencia.estudiante_id
        /\ evals[i].materia_id = sesion.materia_id
        /\ evals[i].periodo_id = sesion.periodo_id
        /\ evals[i].tipo_evaluacion_id = tipo_id
        /\ evals[i].fecha = Fecha(sesion.fecha_inicio)})

NuevaEvaluacion(asistencia, sesion, tipo_id) ==
    [estudiante_id |-> asistencia.estudiante_id,
     materia_id |-> sesion.materia_id,
     periodo_id |-> sesion.periodo_id,
     tipo_evaluacion_id |-> tipo_id,
     fecha |-> Fecha(sesion.fecha_inicio),
     valor |-> calcular_valor_asistencia(asistencia)]

\* lines 240-255: one iteration of the loop, update or insert
SincronizarUnaMut(evals, asistencia, sesion, tipo_id) ==
    Append(evals, NuevaEvaluacion(asistencia, sesion, tipo_id))

SincronizarUna(evals, asistencia, sesion, tipo_id) ==
    LET i == EvaluacionExistente(evals, asistencia, sesion, tipo_id)
    IN IF i # 0
       THEN [evals EXCEPT ![i].valor = calcular_valor_asistencia(asistencia)]
       ELSE Append(evals, NuevaEvaluacion(asistencia, sesion, tipo_id))

RECURSIVE sincronizar_con_evaluaciones(_, _, _, _)
\* lines 224-255: the loop over sesion.asistencias; each query sees the rows
\* the earlier iterations wrote (autoflush)
sincronizar_con_evaluaciones(evals, regs, sesion, tipo_id) ==
    IF regs = <<>> THEN evals
    ELSE sincronizar_con_evaluaciones(
            SincronizarUna(evals, Head(regs), sesion, tipo_id),
            Tail(regs), sesion, tipo_id)

\* sesion.asistencias: the rows of the session, as loaded with it (line 188)
AsistenciasDe(sid) ==
    LET ids == SeqDe({i \in Ids(asistencias) : asistencias[i].sesion_id = sid})
    IN [k \in 1..Len(ids) |-> asistencias[ids[k]]]

\* line 193
NoActivaMut(sesion) == FALSE

NoActiva(sesion) == sesion.estado # "activa"

\* lines 197-199: the pending changes of the session row
SesionCerrada(sid, t) ==
    [sesiones EXCEPT ![sid].estado = "cerrada", ![sid].fecha_fin = Algun(t)]

\* lines 197-221: what is persisted of the session rows when
\* sincronizar_con_evaluaciones raises: the pending changes were never committed
PersistidoAlFallarMut(sid, t) == SesionCerrada(sid, t)

PersistidoAlFallar(sid, t) == sesiones

\* lines 188-221: load the session with its records, check its state, set the
\* pending changes, look up the 'Asistencia' type
cerrar_sesion_asistencia_leer(p) ==
    /\ Inicio(p)
    /\ \E sid \in 1..MaxSesiones :
        LET fin(r) == Respuesta("cerrar", r, sid, 0, 0)
        IN IF sid \notin Ids(sesiones)
           THEN /\ ult' = fin("none")
                /\ UNCHANGED <<pc, loc, sesiones>>
           ELSE IF NoActiva(sesiones[sid])
           THEN /\ ult' = fin("state_error")
                /\ UNCHANGED <<pc, loc, sesiones>>
           ELSE IF TipoAsistencia = 0
           THEN /\ ult' = fin("config_error")
                /\ sesiones' = PersistidoAlFallar(sid, now)
                /\ UNCHANGED <<pc, loc>>
           ELSE /\ pc' = [pc EXCEPT ![p] = "cerrar_commit"]
                /\ loc' = [loc EXCEPT ![p] =
                        [op |-> "cerrar", sid |-> sid, regs |-> AsistenciasDe(sid),
                         sesion |-> sesiones[sid], fin |-> now,
                         tipo_id |-> TipoAsistencia]]
                /\ UNCHANGED <<ult, sesiones>>
    /\ UNCHANGED <<now, tipos, asistencias, evaluaciones, pesos, rendimientos,
                 notificaciones>>

\* lines 224-255 and 204-205: the upserts and the commit
cerrar_sesion_asistencia_commit(p) ==
    /\ Sigue(p, "cerrar_commit")
    /\ evaluaciones' = sincronizar_con_evaluaciones(
            evaluaciones, loc[p].regs, loc[p].sesion, loc[p].tipo_id)
    /\ sesiones' = SesionCerrada(loc[p].sid, loc[p].fin)
    /\ ult' = Respuesta("cerrar", "ok", loc[p].sid, 0, 0)
    /\ pc' = [pc EXCEPT ![p] = "idle"]
    /\ loc' = [loc EXCEPT ![p] = Vacio]
    /\ UNCHANGED <<now, tipos, asistencias, pesos, rendimientos,
                 notificaciones>>

---------------------------------------------------------------------------
(* marcar_asistencia_estudiante *)

Abs(x) == IF x < 0 THEN 0 - x ELSE x

\* lines 22-46 on one meridian (equal longitudes): the great-circle distance
\* is proportional to the difference of the latitudes; here in grid steps
calcular_distancia_haversine(lat1, lat2) == Abs(lat2 - lat1)

\* lines 49-64 with the comparison made strict
validar_ubicacion_estudiante_mut(lat_docente, lat_estudiante, radio_permitido) ==
    LET distancia == calcular_distancia_haversine(lat_docente, lat_estudiante)
    IN <<distancia, distancia < radio_permitido>>

\* lines 49-64: (distancia, dentro_del_rango)
validar_ubicacion_estudiante(lat_docente, lat_estudiante, radio_permitido) ==
    LET distancia == calcular_distancia_haversine(lat_docente, lat_estudiante)
    IN <<distancia, distancia <= radio_permitido>>

\* SesionAsistencia.esta_activa: the session is live
esta_activa(sesion) ==
    /\ sesion.estado = "activa"
    /\ now <= sesion.fecha_inicio + sesion.minutos_tolerancia

\* lines 287-296: the student's row in the session, or 0
AsistenciaDe(sid, est) ==
    Primero({i \in Ids(asistencias) :
        asistencias[i].sesion_id = sid /\ asistencias[i].estudiante_id = est})

\* line 320: late means after the start of the session
EsTardanzaMut(t, fecha_inicio) == t >= fecha_inicio

EsTardanza(t, fecha_inicio) == t > fecha_inicio

VeredictoMarcarSinViva(sid, est, lat) ==
    IF sid \notin Ids(sesiones) THEN "sesion_no_encontrada"
    ELSE IF AsistenciaDe(sid, est) = 0 THEN "estudiante_no_encontrado"
    ELSE IF asistencias[AsistenciaDe(sid, est)].presente THEN "ya_marcado"
    ELSE IF ~validar_ubicacion_estudiante(
                sesiones[sid].latitud_docente, lat,
                sesiones[sid].radio_permitido_metros)[2] THEN "fuera_de_rango"
    ELSE "ok"

VeredictoMarcarSinYa(sid, est, lat) ==
    IF sid \notin Ids(sesiones) THEN "sesion_no_encontrada"
    ELSE IF ~esta_activa(sesiones[sid]) THEN "no_activa"
    ELSE IF AsistenciaDe(sid, est) = 0 THEN "estudiante_no_encontrado"
    ELSE IF ~validar_ubicacion_estudiante(
                sesiones[sid].latitud_docente, lat,
                sesiones[sid].radio_permitido_metros)[2] THEN "fuera_de_rango"
    ELSE "ok"

\* lines 278-316: the checks, in the order of the code
VeredictoMarcar(sid, est, lat) ==
    IF sid \notin Ids(sesiones) THEN "sesion_no_encontrada"
    ELSE IF ~esta_activa(sesiones[sid]) THEN "no_activa"
    ELSE IF AsistenciaDe(sid, est) = 0 THEN "estudiante_no_encontrado"
    ELSE IF asistencias[AsistenciaDe(sid, est)].presente THEN "ya_marcado"
    ELSE IF ~validar_ubicacion_estudiante(
                sesiones[sid].latitud_docente, lat,
                sesiones[sid].radio_permitido_metros)[2] THEN "fuera_de_rango"
    ELSE "ok"

\* lines 278-316: read the session and the record, validate
marcar_asistencia_estudiante_leer(p) ==
    /\ Inicio(p)
    /\ \E sid \in 1..MaxSesiones, est \in Estudiantes, lat \in Latitudes :
        LET v == VeredictoMarcar(sid, est, lat)
        IN IF v # "ok"
           THEN /\ ult' = Respuesta("marcar", v, sid, est, lat)
                /\ UNCHANGED <<pc, loc>>
           ELSE /\ pc' = [pc EXCEPT ![p] = "marcar_commit"]
                /\ loc' = [loc EXCEPT ![p] =
                        [op |-> "marcar", sid |-> sid, est |-> est, lat |-> lat,
                         aid |-> AsistenciaDe(sid, est),
                         fecha_inicio |-> sesiones[sid].fecha_inicio,
                         distancia |-> validar_ubicacion_estudiante(
                                sesiones[sid].latitud_docente, lat,
                                sesiones[sid].radio_permitido_metros)[1]]]
                /\ UNCHANGED ult
    /\ UNCHANGED <<now, store>>

\* lines 318-333: take the time, write the record, commit
marcar_asistencia_estudiante_commit(p) ==
    /\ Sigue(p, "marcar_commit")
    /\ asistencias' = [asistencias EXCEPT
            ![loc[p].aid].presente = TRUE,
            ![loc[p].aid].fecha_marcado = Algun(now),
            ![loc[p].aid].latitud_estudiante = Algun(loc[p].lat),
            ![loc[p].aid].distancia_metros = Algun(loc[p].distancia),
            ![loc[p].aid].es_tardanza = EsTardanza(now, loc[p].fecha_inicio)]
    /\ ult' = Respuesta("marcar", "ok", loc[p].sid, loc[p].est, loc[p].lat)
    /\ pc' = [pc EXCEPT ![p] = "idle"]
    /\ loc' = [loc EXCEPT ![p] = Vacio]
    /\ UNCHANGED <<now, tipos, sesiones, evaluaciones, pesos, rendimientos,
                 notificaciones>>

\* lines 459-531 with the location checked before the record's presente
VeredictoValidarMut(sid, est, lat) ==
    IF sid \notin Ids(sesiones) THEN "sesion_no_encontrada"
    ELSE IF ~esta_activa(sesiones[sid]) THEN "no_activa"
    ELSE LET aid == AsistenciaDe(sid, est)
         IN IF aid = 0 THEN "estudiante_no_encontrado"
            ELSE LET ubicacion == validar_ubicacion_estudiante(
                        sesiones[sid].latitud_docente, lat,
                        sesiones[sid].radio_permitido_metros)
                 IN IF ~ubicacion[2] THEN "fuera_de_rango"
                    ELSE IF asistencias[aid].presente THEN "ya_marcado" ELSE "ok"

\* lines 459-531: the checks of validar_puede_marcar_asistencia, in the order
\* of the code; "ok" stands for puede_marcar = True, any other value for the
\* mensaje returned with puede_marcar = False
VeredictoValidar(sid, est, lat) ==
    IF sid \notin Ids(sesiones) THEN "sesion_no_encontrada"
    ELSE IF ~esta_activa(sesiones[sid]) THEN "no_activa"
    ELSE LET aid == AsistenciaDe(sid, est)
         IN IF aid = 0 THEN "estudiante_no_encontrado"
            ELSE IF asistencias[aid].presente THEN "ya_marcado"
            ELSE LET ubicacion == validar_ubicacion_estudiante(
                        sesiones[sid].latitud_docente, lat,
                        sesiones[sid].radio_permitido_metros)
                 IN IF ~ubicacion[2] THEN "fuera_de_rango" ELSE "ok"

\* lines 450-531: nothing is written
validar_puede_marcar_asistencia(p) ==
    /\ Inicio(p)
    /\ \E sid \in 1..MaxSesiones, est \in Estudiantes, lat \in Latitudes :
        ult' = Respuesta("validar", VeredictoValidar(sid, est, lat), sid, est, lat)
    /\ UNCHANGED <<now, store, pc, loc>>

---------------------------------------------------------------------------
(* justificar_ausencia, actualizar_sesion_asistencia, the clock *)

\* lines 346-374
justificar_ausencia(p) ==
    /\ Inicio(p)
    /\ \E sid \in 1..MaxSesiones, est \in Estudiantes :
        LET aid == AsistenciaDe(sid, est)
        IN IF aid = 0
           THEN /\ ult' = Respuesta("justificar", "no_encontrado", sid, est, 0)
                /\ UNCHANGED asistencias
           ELSE /\ asistencias' = [asistencias EXCEPT ![aid].justificado = TRUE]
                /\ ult' = Respuesta("justificar", "ok", sid, est, 0)
    /\ UNCHANGED <<now, tipos, sesiones, evaluaciones, pc, loc, pesos, rendimientos,
                 notificaciones>>

\* the fields of SesionAsistenciaUpdate a request may set: the check-in
\* parameters of the session, never its lifecycle state
DatosActualizar == [minutos_tolerancia : Tolerancias]

\* lines 174-175: setattr for every field given
AplicarCamposMut(sesion, datos) ==
    [sesion EXCEPT !.minutos_tolerancia = datos.minutos_tolerancia,
                   !.estado = "activa"]

AplicarCampos(sesion, datos) ==
    [sesion EXCEPT !.minutos_tolerancia = datos.minutos_tolerancia]

\* lines 163-182
actualizar_sesion_asistencia(p) ==
    /\ Inicio(p)
    /\ \E sid \in 1..MaxSesiones, datos \in DatosActualizar :
        IF sid \notin Ids(sesiones)
        THEN /\ ult' = Respuesta("actualizar", "none", sid, 0, 0)
             /\ UNCHANGED sesiones
        ELSE /\ sesiones' = [sesiones EXCEPT ![sid] = AplicarCampos(sesiones[sid], datos)]
             /\ ult' = Respuesta("actualizar", "ok", sid, 0, 0)
    /\ UNCHANGED <<now, tipos, asistencias, evaluaciones, pc, loc, pesos, rendimientos,
                 notificaciones>>

\* time passes
Tick ==
    /\ Libre
    /\ now < MaxTime
    /\ now' = now + 1
    /\ UNCHANGED <<store, pc, loc, ult, solapes>>

\* the response reaches the caller
Retornar ==
    /\ ~Libre
    /\ ult' = SinRespuesta
    /\ UNCHANGED <<now, store, pc, loc, solapes>>

---------------------------------------------------------------------------
(* calcular_rendimiento_final and calcular_todos_los_rendimientos of
   app/routers/rendimiento_final.py.  A float is an exact fraction <<num, den>>;
   a value rounded to two decimals is held in hundredths. *)

IdParticipacion == 4    \* id of the TipoEvaluacion row named 'Participacion'

MaxEvaluaciones == 3    \* SpecRend: rows of the ledger
Valores == {0, 60, 80}  \* valor of a ledger row
Porcentajes == {30, 50} \* porcentaje of a PesoTipoEvaluacion row
DocentesPeso == {1, 2}  \* teachers a computation may be asked for
DocentesConPeso == {1}  \* those of them who may have assigned weights
Gestiones == {1}

\* table CursoMateria as (curso_id, materia_id)
CursoMaterias == {<<1, 1>>}

TipoId(nombre) == IF nombre = "Asistencia" THEN IdAsistencia ELSE IdParticipacion

\* db.query(TipoEvaluacion).all(): the ids of the rows
TodosLosTipos == SeqDe({TipoId(n) : n \in tipos})

\* lines 82-91: the weight row of the teacher for the subject, cycle and type, or 0
PesoDe(docente_id, materia_id, gestion_id, tipo_id) ==
    Primero({i \in Ids(pesos) :
        /\ pesos[i].docente_id = docente_id
        /\ pesos[i].materia_id = materia_id
        /\ pesos[i].gestion_id = gestion_id
        /\ pesos[i].tipo_evaluacion_id = tipo_id})

\* lines 95-104: the ledger rows of the student, subject, period and type
EvaluacionesDe(evals, estudiante_id, materia_id, periodo_id, tipo_id) ==
    {i \in Ids(evals) :
        /\ evals[i].estudiante_id = estudiante_id
        /\ evals[i].materia_id = materia_id
        /\ evals[i].periodo_id = periodo_id
        /\ evals[i].tipo_evaluacion_id = tipo_id}

RECURSIVE Suma(_, _)
\* sum(e.valor for e in evaluaciones)
Suma(evals, S) ==
    IF S = {} THEN 0
    ELSE LET i == CHOOSE x \in S : TRUE
         IN evals[i].valor + Suma(evals, S \ {i})

SumaFrac(a, b) == <<a[1] * b[2] + b[1] * a[2], a[2] * b[2]>>

\* the fraction cut after two decimals instead of rounded
round2_mut(x) == (x[1] * 100) \div x[2]

\* round(x, 2) of the fraction x, in hundredths; a tie goes to the even digit
round2(x) ==
    LET num == x[1] * 100
        q == num \div x[2]
        r == num % x[2]
    IN IF 2 * r < x[2] THEN q
       ELSE IF 2 * r > x[2] THEN q + 1
       ELSE IF q % 2 = 0 THEN q ELSE q + 1

\* lines 109-110 with the sum taken for the mean
AporteMut(evals, S, porcentaje) == <<Suma(evals, S) * porcentaje, 100>>

\* lines 109-110: promedio = sum / len; aporte = promedio * porcentaje / 100
Aporte(evals, S, porcentaje) ==
    <<Suma(evals, S) * porcentaje, Cardinality(S) * 100>>

\* lines 92-93 and 106-107: a type without weight row, or without ledger
\* rows, is passed over
IncluidoMut(peso, S) == S # {}

Incluido(peso, S) == peso # 0 /\ S # {}

RECURSIVE SumaAportes(_, _, _, _, _, _, _, _)
\* lines 80-111: the loop over the types, nota_final accumulating
SumaAportes(nota, ts, evals, estudiante_id, materia_id, periodo_id, gestion_id, docente_id) ==
    IF ts = <<>> THEN nota
    ELSE LET peso == PesoDe(docente_id, materia_id, gestion_id, Head(ts))
             S == EvaluacionesDe(evals, estudiante_id, materia_id, periodo_id, Head(ts))
             porcentaje == IF peso = 0 THEN 100 ELSE pesos[peso].porcentaje
         IN SumaAportes(
                IF Incluido(peso, S) THEN SumaFrac(nota, Aporte(evals, S, porcentaje))
                ELSE nota,
                Tail(ts), evals, estudiante_id, materia_id, periodo_id, gestion_id, docente_id)

\* lines 77-114: nota_final, rounded, in hundredths
NotaFinal(evals, estudiante_id, materia_id, periodo_id, gestion_id, docente_id) ==
    round2(SumaAportes(<<0, 1>>, TodosLosTipos, evals,
                       estudiante_id, materia_id, periodo_id, gestion_id, docente_id))

\* lines 119-125: the RendimientoFinal row of the student, subject and period, or 0
RendimientoExistente(rends, estudiante_id, materia_id, periodo_id) ==
    Primero({i \in Ids(rends) :
        /\ rends[i].estudiante_id = estudiante_id
        /\ rends[i].materia_id = materia_id
        /\ rends[i].periodo_id = periodo_id})

NuevoRendimiento(estudiante_id, materia_id, periodo_id, nota_final) ==
    [estudiante_id |-> estudiante_id, materia_id |-> materia_id,
     periodo_id |-> periodo_id, nota_final |-> nota_final]

\* lines 127-143: overwrite nota_final of the row, or add the row
GuardarMut(rends, estudiante_id, materia_id, periodo_id, nota_final) ==
    Append(rends, NuevoRendimiento(estudiante_id, materia_id, periodo_id, nota_final))

Guardar(rends, estudiante_id, materia_id, periodo_id, nota_final) ==
    LET i == RendimientoExistente(rends, estudiante_id, materia_id, periodo_id)
    IN IF i # 0
       THEN [rends EXCEPT ![i].nota_final = nota_final]
       ELSE Append(rends, NuevoRendimiento(estudiante_id, materia_id, periodo_id, nota_final))

\* lines 68-143
calcular_rendimiento_final(p) ==
    /\ Inicio(p)
    /\ \E estudiante_id \in Estudiantes, materia_id \in Materias, periodo_id \in Periodos,
          gestion_id \in Gestiones, docente_id \in DocentesPeso :
        LET nota_final == NotaFinal(evaluaciones, estudiante_id, materia_id,
                                    periodo_id, gestion_id, docente_id)
        IN /\ rendimientos' = Guardar(rendimientos, estudiante_id, materia_id,
                                      periodo_id, nota_final)
           /\ ult' = Respuesta("calcular", "ok", 0, estudiante_id,
                        [materia_id |-> materia_id, periodo_id |-> periodo_id,
                         gestion_id |-> gestion_id, docente_id |-> docente_id,
                         nota_final |-> nota_final])
    /\ UNCHANGED <<now, tipos, sesiones, asistencias, evaluaciones, pesos, pc, loc,
                 notificaciones>>

\* lines 167-185: the subjects of the courses the student is enrolled in
MateriasDe(estudiante_id) ==
    SeqDe({cm[2] : cm \in {x \in CursoMaterias : <<estudiante_id, x[1]>> \in Inscripciones}})

RECURSIVE CalcularTodos(_, _, _, _, _, _)
\* lines 187-256: per subject, the same computation and the same upsert
CalcularTodos(rends, materia_ids, estudiante_id, periodo_id, gestion_id, docente_id) ==
    IF materia_ids = <<>> THEN rends
    ELSE CalcularTodos(
            Guardar(rends, estudiante_id, Head(materia_ids), periodo_id,
                    NotaFinal(evaluaciones, estudiante_id, Head(materia_ids),
                              periodo_id, gestion_id, docente_id)),
            Tail(materia_ids), estudiante_id, periodo_id, gestion_id, docente_id)

\* lines 146-268
calcular_todos_los_rendimientos(p) ==
    /\ Inicio(p)
    /\ \E estudiante_id \in Estudiantes, periodo_id \in Periodos,
          gestion_id \in Gestiones, docente_id \in DocentesPeso :
        IF \A c \in Cursos : <<estudiante_id, c>> \notin Inscripciones
        THEN /\ ult' = Respuesta("calcular_todos", "no_inscrito", 0, estudiante_id, 0)
             /\ UNCHANGED rendimientos
        ELSE /\ rendimientos' = CalcularTodos(rendimientos, MateriasDe(estudiante_id),
                                    estudiante_id, periodo_id, gestion_id, docente_id)
             /\ ult' = Respuesta("calcular_todos", "ok", 0, estudiante_id,
                            [periodo_id |-> periodo_id, gestion_id |-> gestion_id,
                             docente_id |-> docente_id])
    /\ UNCHANGED <<now, tipos, sesiones, asistencias, evaluaciones, pesos, pc, loc,
                 notificaciones>>

\* the rows a ledger may hold
EntradasLedger ==
    [estudiante_id : Estudiantes, materia_id : Materias, periodo_id : Periodos,
     tipo_evaluacion_id : {IdParticipacion, IdAsistencia}, fecha : {0}, valor : Valores]

\* the weight rows a teacher may have assigned
EntradasPeso ==
    [docente_id : DocentesConPeso, materia_id : Materias, gestion_id : Gestiones,
     tipo_evaluacion_id : {IdParticipacion, IdAsistencia}, porcentaje : Porcentajes]

ClavePeso(w) == <<w.docente_id, w.materia_id, w.gestion_id, w.tipo_evaluacion_id>>

RECURSIVE TablaDe(_)
\* a set of rows as a table, in some order of insertion
TablaDe(S) ==
    IF S = {} THEN <<>>
    ELSE LET w == CHOOSE x \in S : TRUE
         IN <<w>> \o TablaDe(S \ {w})

---------------------------------------------------------------------------
(* The low-grade notification trigger of app/services/notification_service.py
   and the ledger writes of app/routers/evaluaciones.py that call it *)

MaxLedger == 2          \* SpecNotif: rows of the ledger
MaxLista == 2           \* SpecNotif: elements of the list of a bulk registration
MaxNotificaciones == 3  \* SpecNotif: rows of Notificacion an administrator adds to

Padres == {1, 2}
\* table PadreEstudiante as (padre_id, estudiante_id): student 1 has two
\* guardians, student 2 has none
PadreEstudiantes == {<<1, 1>>, <<2, 1>>}

UmbralPorDefecto == 50  \* umbral: float = 50.0
Umbrales == {UmbralPorDefecto}
ValoresEntrada == {40, 50}      \* valor of a single write
ValoresMasiva == {40, 50, 101}  \* valor of an element of a bulk registration
EstadosMasiva == {"falta", "tarde", "otro"}  \* estado of an element of a bulk registration

\* lines 59-63 of the service: the guardians of the student
PadresDe(estudiante_id) ==
    SeqDe({pe[1] : pe \in {x \in PadreEstudiantes : x[2] = estudiante_id}})

\* lines 77-85 of the service with no row ever found
NotificacionExistenteMut(nots, padre_id, evaluacion_id) == 0

\* lines 77-85 of the service: the 'calificacion_baja' row of the guardian for
\* the evaluation, or 0
NotificacionExistente(nots, padre_id, evaluacion_id) ==
    Primero({i \in Ids(nots) :
        /\ nots[i].padre_id = padre_id
        /\ nots[i].evaluacion_id = evaluacion_id
        /\ nots[i].tipo = "calificacion_baja"})

\* lines 102-109 of the service and 14-21 of crud/notificacion.py
NuevaNotificacion(padre_id, estudiante_id, evaluacion_id, tipo) ==
    [padre_id |-> padre_id, estudiante_id |-> estudiante_id,
     evaluacion_id |-> evaluacion_id, tipo |-> tipo]

RECURSIVE NotificarPadres(_, _, _, _, _, _, _, _)
\* lines 73-124 of the service: the loop over the guardians.  crear_notificacion
\* raises for the guardian falla (0: for none); the inner except logs it.  When
\* envenena holds the failed commit leaves the db session unusable, the query
\* of the next iteration raises, and the outer except of lines 126-128
\* returns [] while the rows committed before stay.
NotificarPadres(nots, creadas, padres, evaluacion_id, estudiante_id, falla, envenena, fallo) ==
    IF padres = <<>> THEN [nots |-> nots, ids |-> creadas, fallo |-> fallo]
    ELSE IF fallo /\ envenena THEN [nots |-> nots, ids |-> <<>>, fallo |-> TRUE]
    ELSE IF NotificacionExistente(nots, Head(padres), evaluacion_id) # 0
    THEN NotificarPadres(nots, creadas, Tail(padres), evaluacion_id, estudiante_id,
                         falla, envenena, fallo)
    ELSE IF Head(padres) = falla
    THEN NotificarPadres(nots, creadas, Tail(padres), evaluacion_id, estudiante_id,
                         falla, envenena, TRUE)
    ELSE NotificarPadres(
            Append(nots, NuevaNotificacion(Head(padres), estudiante_id,
                                           evaluacion_id, "calificacion_baja")),
            Append(creadas, Len(nots) + 1), Tail(padres), evaluacion_id,
            estudiante_id, falla, envenena, fallo)

\* line 52 of the service with the comparison made strict
BajoUmbralMut(valor, umbral) == ~(valor > umbral)

\* line 52 of the service: if evaluacion.valor >= umbral: return []
BajoUmbral(valor, umbral) == ~(valor >= umbral)

\* lines 18-128 of the service: the table afterwards, the ids returned, and
\* whether a creation failed
verificar_y_notificar_calificacion_baja(nots, evals, evaluacion_id, umbral, falla, envenena) ==
    IF evaluacion_id \notin Ids(evals)
    THEN [nots |-> nots, ids |-> <<>>, fallo |-> FALSE]
    ELSE IF ~BajoUmbral(evals[evaluacion_id].valor, umbral)
    THEN [nots |-> nots, ids |-> <<>>, fallo |-> FALSE]
    ELSE NotificarPadres(nots, <<>>, PadresDe(evals[evaluacion_id].estudiante_id),
                         evaluacion_id, evals[evaluacion_id].estudiante_id,
                         falla, envenena, FALSE)

\* lines 927-954 of the router: the trigger called for an evaluation
verificar_notificaciones_evaluacion(p) ==
    /\ Inicio(p)
    /\ \E evaluacion_id \in 1..MaxLedger, umbral \in Umbrales,
          falla \in {0} \cup Padres, envenena \in BOOLEAN :
        LET r == verificar_y_notificar_calificacion_baja(
                    notificaciones, evaluaciones, evaluacion_id, umbral, falla, envenena)
        IN /\ notificaciones' = r.nots
           /\ ult' = Respuesta("verificar", "ok", 0, 0,
                        [evaluacion_id |-> evaluacion_id, umbral |-> umbral,
                         ids |-> r.ids, fallo |-> r.fallo,
                         falla |-> IF r.fallo THEN falla ELSE 0])
    /\ UNCHANGED <<now, tipos, sesiones, asistencias, evaluaciones, pesos,
                   rendimientos, pc, loc>>

\* lines 32-51 of the router: the trigger with the default threshold, for an
\* evaluation below 50
NotificarSiBaja(nots, evals, evaluacion_id) ==
    IF evals[evaluacion_id].valor < 50
    THEN verificar_y_notificar_calificacion_baja(
            nots, evals, evaluacion_id, UmbralPorDefecto, 0, FALSE).nots
    ELSE nots

\* the period of a date (lines 574-589 of the router)
PeriodoDe(fecha) == 1

\* a row of the ledger
Evaluacion(estudiante_id, materia_id, periodo_id, tipo_id, fecha, valor) ==
    [estudiante_id |-> estudiante_id, materia_id |-> materia_id,
     periodo_id |-> periodo_id, tipo_evaluacion_id |-> tipo_id,
     fecha |-> fecha, valor |-> valor]

\* crud.crear_evaluacion: the row is added and committed
crear_evaluacion(evals, datos) == Append(evals, datos)

\* lines 54-65 of the router
crear(p) ==
    /\ Inicio(p)
    /\ Len(evaluaciones) < MaxLedger
    /\ \E estudiante_id \in Estudiantes, materia_id \in Materias,
          tipo_id \in {IdParticipacion, IdAsistencia}, valor \in ValoresEntrada :
        LET evals == crear_evaluacion(evaluaciones,
                        Evaluacion(estudiante_id, materia_id, PeriodoDe(0), tipo_id, 0, valor))
        IN /\ evaluaciones' = evals
           /\ notificaciones' = NotificarSiBaja(notificaciones, evals, Len(evals))
           /\ ult' = Respuesta("crear_evaluacion", "ok", 0, estudiante_id,
                        [evaluacion_id |-> Len(evals)])
    /\ UNCHANGED <<now, tipos, sesiones, asistencias, pesos, rendimientos, pc, loc>>

\* crud.actualizar_evaluacion: the fields given are set and committed
actualizar_evaluacion(evals, evaluacion_id, valor) ==
    [evals EXCEPT ![evaluacion_id].valor = valor]

\* lines 87-101 of the router
actualizar(p) ==
    /\ Inicio(p)
    /\ \E evaluacion_id \in 1..MaxLedger, valor \in ValoresEntrada :
        IF evaluacion_id \notin Ids(evaluaciones)
        THEN /\ ult' = Respuesta("actualizar_evaluacion", "no_encontrada", 0, 0,
                        [evaluacion_id |-> evaluacion_id])
             /\ UNCHANGED <<evaluaciones, notificaciones>>
        ELSE LET evals == actualizar_evaluacion(evaluaciones, evaluacion_id, valor)
             IN /\ evaluaciones' = evals
                /\ notificaciones' = NotificarSiBaja(notificaciones, evals, evaluacion_id)
                /\ ult' = Respuesta("actualizar_evaluacion", "ok", 0,
                            evals[evaluacion_id].estudiante_id,
                            [evaluacion_id |-> evaluacion_id])
    /\ UNCHANGED <<now, tipos, sesiones, asistencias, pesos, rendimientos, pc, loc>>

\* lines 204-245 of the service, called at lines 225-255 of
\* routers/notificaciones.py: a row is added without a look at the table.
\* The requests drawn are a 'general' row without an evaluation and a
\* 'calificacion_baja' row for an evaluation of the ledger.
crear_notificacion_admin(p) ==
    /\ Inicio(p)
    /\ Len(notificaciones) < MaxNotificaciones
    /\ \E padre_id \in Padres, tipo \in {"general", "calificacion_baja"},
          evaluacion_id \in {0} \cup Ids(evaluaciones) :
        /\ tipo = "general" <=> evaluacion_id = 0
        /\ notificaciones' = Append(notificaciones,
                NuevaNotificacion(padre_id, 1, evaluacion_id, tipo))
        /\ ult' = Respuesta("crear_notificacion", "ok", 0, 0,
                    [evaluacion_id |-> evaluacion_id])
    /\ UNCHANGED <<now, tipos, sesiones, asistencias, evaluaciones, pesos,
                   rendimientos, pc, loc>>

---------------------------------------------------------------------------
(* The bulk registrations of app/routers/evaluaciones.py *)

\* estudiantes: list[dict] of the value registrations
ListasValor ==
    UNION {[1..n -> [id : Estudiantes, valor : ValoresMasiva]] : n \in 1..MaxLista}

\* estudiantes: list[dict] of registrar_asistencia_masiva
ListasEstado ==
    UNION {[1..n -> [id : Estudiantes, estado : EstadosMasiva]] : n \in 1..MaxLista}

\* lines 693 and 871: 0 <= valor <= 100
ValorValido(valor) == 0 <= valor /\ valor <= 100

\* lines 566-571: estado_valores
EstadoValido(estado) == estado \in {"presente", "falta", "tarde", "justificacion"}

EstadoValor(estado) ==
    CASE estado = "presente" -> 100
      [] estado = "falta" -> 0
      [] OTHER -> 50

RECURSIVE FilasValor(_, _, _, _, _)
\* lines 688-709 and 867-889: the rows added to the session, up to the element
\* that raises
FilasValor(lista, materia_id, periodo_id, tipo_id, fecha) ==
    IF lista = <<>> THEN <<>>
    ELSE IF ~ValorValido(Head(lista).valor) THEN <<>>
    ELSE <<Evaluacion(Head(lista).id, materia_id, periodo_id, tipo_id, fecha,
                      Head(lista).valor)>>
         \o FilasValor(Tail(lista), materia_id, periodo_id, tipo_id, fecha)

RECURSIVE FilasEstado(_, _, _, _, _, _, _)
\* lines 606-638: the rows added to the session, up to the element that
\* raises; an element whose student has a row of the day is skipped.  With
\* autoflush the query of lines 613-623 sees the rows added before it.
FilasEstado(lista, evals, pendientes, materia_id, periodo_id, fecha, autoflush) ==
    IF lista = <<>> THEN pendientes
    ELSE IF ~EstadoValido(Head(lista).estado) THEN pendientes
    ELSE LET vistas == IF autoflush THEN evals \o pendientes ELSE evals
             existente == Primero({i \in Ids(vistas) :
                 /\ vistas[i].estudiante_id = Head(lista).id
                 /\ vistas[i].materia_id = materia_id
                 /\ vistas[i].periodo_id = periodo_id
                 /\ vistas[i].fecha = fecha
                 /\ vistas[i].tipo_evaluacion_id = IdAsistencia})
         IN FilasEstado(Tail(lista), evals,
                IF existente # 0 THEN pendientes
                ELSE Append(pendientes,
                        Evaluacion(Head(lista).id, materia_id, periodo_id, IdAsistencia,
                                   fecha, EstadoValor(Head(lista).estado))),
                materia_id, periodo_id, fecha, autoflush)

\* the HTTPException leaves the handler before db.commit(), and get_db closes
\* the session: here the rows added so far are committed all the same
PersistidoAlRechazarMut(evals, pendientes) == evals \o pendientes

\* lines 610-611, 693-697 and 871-875: the HTTPException leaves the handler
\* before db.commit() (lines 640, 711, 891), and get_db closes the session
PersistidoAlRechazar(evals, pendientes) == evals

\* lines 719-730 and 649-660: the rows a query by student, subject, period,
\* date, type and value matches
Coincidentes(evals, estudiante_id, materia_id, periodo_id, tipo_id, fecha, valor) ==
    {i \in Ids(evals) :
        /\ evals[i].estudiante_id = estudiante_id
        /\ evals[i].materia_id = materia_id
        /\ evals[i].periodo_id = periodo_id
        /\ evals[i].fecha = fecha
        /\ evals[i].tipo_evaluacion_id = tipo_id
        /\ evals[i].valor = valor}

\* lines 900-911: the query without the period, newest row first
UltimaCoincidente(evals, estudiante_id, materia_id, tipo_id, fecha, valor) ==
    LET S == {i \in Ids(evals) :
                /\ evals[i].estudiante_id = estudiante_id
                /\ evals[i].materia_id = materia_id
                /\ evals[i].tipo_evaluacion_id = tipo_id
                /\ evals[i].fecha = fecha
                /\ evals[i].valor = valor}
    IN IF S = {} THEN 0 ELSE CHOOSE i \in S : \A j \in S : j <= i

RECURSIVE NotificarElegidas(_, _, _)
\* the second loop of a bulk registration: the helper of lines 32-51 on the
\* row found for each element, 0 for an element that is passed over
NotificarElegidas(nots, evals, elegidas) ==
    IF elegidas = <<>> THEN nots
    ELSE NotificarElegidas(
            IF Head(elegidas) = 0 THEN nots
            ELSE NotificarSiBaja(nots, evals, Head(elegidas)),
            evals, Tail(elegidas))

\* .first() of a query without order_by: any of the rows it matches, or 0
\* when the element is not below 50 or no row matches
ElegidasPosibles(evals, lista, valores, materia_id, periodo_id, tipo_id, fecha) ==
    {e \in [1..Len(lista) -> {0} \cup Ids(evals)] :
        \A k \in 1..Len(lista) :
            LET S == Coincidentes(evals, lista[k].id, materia_id, periodo_id,
                                  tipo_id, fecha, valores[k])
            IN IF valores[k] < 50 /\ S # {} THEN e[k] \in S ELSE e[k] = 0}

\* lines 674-741
registrar_participacion_masiva(p) ==
    /\ Inicio(p)
    /\ \E lista \in ListasValor, materia_id \in Materias :
        /\ Len(evaluaciones) + Len(lista) <= MaxLedger
        /\ LET periodo_id == PeriodoDe(0)
               pendientes == FilasValor(lista, materia_id, periodo_id, IdParticipacion, 0)
               valores == [k \in 1..Len(lista) |-> lista[k].valor]
           IN IF \E k \in 1..Len(lista) : ~ValorValido(lista[k].valor)
              THEN /\ evaluaciones' = PersistidoAlRechazar(evaluaciones, pendientes)
                   /\ UNCHANGED notificaciones
                   /\ ult' = Respuesta("participacion_masiva", "invalido", 0, 0,
                                [antes |-> Len(evaluaciones), pendientes |-> Len(pendientes),
                                 elegidas |-> <<>>, notificadas |-> Len(notificaciones)])
              ELSE LET evals == evaluaciones \o pendientes
                   IN /\ evaluaciones' = evals
                      /\ \E elegidas \in ElegidasPosibles(evals, lista, valores,
                                materia_id, periodo_id, IdParticipacion, 0) :
                          /\ notificaciones' = NotificarElegidas(notificaciones, evals, elegidas)
                          /\ ult' = Respuesta("participacion_masiva", "ok", 0, 0,
                                [antes |-> Len(evaluaciones), pendientes |-> Len(pendientes),
                                 elegidas |-> elegidas,
                                 notificadas |-> Len(notificaciones)])
    /\ UNCHANGED <<now, tipos, sesiones, asistencias, pesos, rendimientos, pc, loc>>

\* lines 845-923
registrar_evaluaciones_masiva(p) ==
    /\ Inicio(p)
    /\ \E lista \in ListasValor, materia_id \in Materias,
          tipo_evaluacion_id \in {0, IdParticipacion} :
        /\ Len(evaluaciones) + Len(lista) <= MaxLedger
        /\ LET periodo_id == PeriodoDe(0)
               pendientes == FilasValor(lista, materia_id, periodo_id, tipo_evaluacion_id, 0)
           IN IF tipo_evaluacion_id \notin {TipoId(n) : n \in tipos}
              THEN /\ UNCHANGED <<evaluaciones, notificaciones>>
                   /\ ult' = Respuesta("evaluaciones_masiva", "tipo_no_encontrado", 0, 0,
                                [antes |-> Len(evaluaciones), pendientes |-> Len(pendientes),
                                 elegidas |-> <<>>, notificadas |-> Len(notificaciones)])
              ELSE IF \E k \in 1..Len(lista) : ~ValorValido(lista[k].valor)
              THEN /\ evaluaciones' = PersistidoAlRechazar(evaluaciones, pendientes)
                   /\ UNCHANGED notificaciones
                   /\ ult' = Respuesta("evaluaciones_masiva", "invalido", 0, 0,
                                [antes |-> Len(evaluaciones), pendientes |-> Len(pendientes),
                                 elegidas |-> <<>>, notificadas |-> Len(notificaciones)])
              ELSE LET evals == evaluaciones \o pendientes
                       elegidas == [k \in 1..Len(lista) |->
                            IF lista[k].valor < 50
                            THEN UltimaCoincidente(evals, lista[k].id, materia_id,
                                    tipo_evaluacion_id, 0, lista[k].valor)
                            ELSE 0]
                   IN /\ evaluaciones' = evals
                      /\ notificaciones' = NotificarElegidas(notificaciones, evals, elegidas)
                      /\ ult' = Respuesta("evaluaciones_masiva", "ok", 0, 0,
                                [antes |-> Len(evaluaciones), pendientes |-> Len(pendientes),
                                 elegidas |-> elegidas,
                                 notificadas |-> Len(notificaciones)])
    /\ UNCHANGED <<now, tipos, sesiones, asistencias, pesos, rendimientos, pc, loc>>

\* lines 592-671
registrar_asistencia_masiva(p) ==
    /\ Inicio(p)
    /\ \E lista \in ListasEstado, materia_id \in Materias, autoflush \in BOOLEAN :
        /\ Len(evaluaciones) + Len(lista) <= MaxLedger
        /\ LET periodo_id == PeriodoDe(0)
               pendientes == FilasEstado(lista, evaluaciones, <<>>, materia_id,
                                         periodo_id, 0, autoflush)
           IN IF \E k \in 1..Len(lista) : ~EstadoValido(lista[k].estado)
              THEN /\ evaluaciones' = PersistidoAlRechazar(evaluaciones, pendientes)
                   /\ UNCHANGED notificaciones
                   /\ ult' = Respuesta("asistencia_masiva", "invalido", 0, 0,
                                [antes |-> Len(evaluaciones), pendientes |-> Len(pendientes),
                                 elegidas |-> <<>>, notificadas |-> Len(notificaciones)])
              ELSE LET evals == evaluaciones \o pendientes
                       valores == [k \in 1..Len(lista) |-> EstadoValor(lista[k].estado)]
                   IN /\ evaluaciones' = evals
                      /\ \E elegidas \in ElegidasPosibles(evals, lista, valores,
                                materia_id, periodo_id, IdAsistencia, 0) :
                          /\ notificaciones' = NotificarElegidas(notificaciones, evals, elegidas)
                          /\ ult' = Respuesta("asistencia_masiva", "ok", 0, 0,
                                [antes |-> Len(evaluaciones), pendientes |-> Len(pendientes),
                                 elegidas |-> elegidas,
                                 notificadas |-> Len(notificaciones)])
    /\ UNCHANGED <<now, tipos, sesiones, asistencias, pesos, rendimientos, pc, loc>>

RECURSIVE ReenviarTodas(_, _, _, _)
\* lines 984-995: the trigger on each of the rows found
ReenviarTodas(nots, evals, ids, umbral) ==
    IF ids = <<>> THEN nots
    ELSE ReenviarTodas(
            verificar_y_notificar_calificacion_baja(nots, evals, Head(ids), umbral, 0, FALSE).nots,
            evals, Tail(ids), umbral)

\* lines 958-1008
reenviar_notificaciones_calificaciones_bajas(p) ==
    /\ Inicio(p)
    /\ \E materia_id \in Materias, periodo_id \in Periodos, umbral \in Umbrales :
        LET bajas == SeqDe({i \in Ids(evaluaciones) :
                        /\ evaluaciones[i].materia_id = materia_id
                        /\ evaluaciones[i].periodo_id = periodo_id
                        /\ evaluaciones[i].valor < umbral})
        IN /\ notificaciones' = ReenviarTodas(notificaciones, evaluaciones, bajas, umbral)
           /\ ult' = Respuesta("reenviar", "ok", 0, 0,
                        [bajas |-> bajas, umbral |-> umbral])
    /\ UNCHANGED <<now, tipos, sesiones, asistencias, evaluaciones, pesos,
                   rendimientos, pc, loc>>

---------------------------------------------------------------------------
(* The specifications *)

Init ==
    /\ now = 0
    /\ tipos \in {{"Participacion"}, {"Asistencia", "Participacion"}}
    /\ sesiones = <<>>
    /\ asistencias = <<>>
    /\ evaluaciones = <<>>
    /\ pesos = <<>>
    /\ rendimientos = <<>>
    /\ notificaciones = <<>>
    /\ pc = [p \in Procs |-> "idle"]
    /\ loc = [p \in Procs |-> Vacio]
    /\ ult = SinRespuesta
    /\ solapes = 0

Paso(p) ==
    \/ crear_sesion_asistencia_verificar(p)
    \/ crear_sesion_asistencia_insertar(p)
    \/ crear_registros_asistencia_estudiantes(p)
    \/ crear_sesion_asistencia_falla(p)
    \/ cerrar_sesion_asistencia_leer(p)
    \/ cerrar_sesion_asistencia_commit(p)
    \/ marcar_asistencia_estudiante_leer(p)
    \/ marcar_asistencia_estudiante_commit(p)
    \/ validar_puede_marcar_asistencia(p)
    \/ justificar_ausencia(p)
    \/ actualizar_sesion_asistencia(p)

\* one request at a time, each run to completion
Next == (\E p \in ProcsSeq : Paso(p)) \/ Tick \/ Retornar

Spec == Init /\ [][Next]_vars

\* the steps of concurrent requests interleave, within one tick of the clock
NextConc == (\E p \in Procs : Paso(p)) \/ Retornar

SpecConc == Init /\ [][NextConc]_vars

\* the aggregation over a given ledger and given weights, one request at a time
InitRend ==
    /\ now = 0
    /\ tipos = {"Asistencia", "Participacion"}
    /\ sesiones = <<>>
    /\ asistencias = <<>>
    /\ evaluaciones \in UNION {[1..n -> EntradasLedger] : n \in 0..MaxEvaluaciones}
    /\ pesos \in {TablaDe(S) : S \in {T \in SUBSET EntradasPeso :
                        \A v, w \in T : ClavePeso(v) = ClavePeso(w) => v = w}}
    /\ rendimientos = <<>>
    /\ notificaciones = <<>>
    /\ pc = [p \in Procs |-> "idle"]
    /\ loc = [p \in Procs |-> Vacio]
    /\ ult = SinRespuesta
    /\ solapes = 0

NextRend ==
    \/ \E p \in ProcsSeq : calcular_rendimiento_final(p)
    \/ \E p \in ProcsSeq : calcular_todos_los_rendimientos(p)
    \/ Retornar

SpecRend == InitRend /\ [][NextRend]_vars

\* the ledger writes and the notification operations, one request at a time,
\* from an empty ledger and an empty table of notifications
InitNotif ==
    /\ now = 0
    /\ tipos = {"Asistencia", "Participacion"}
    /\ sesiones = <<>>
    /\ asistencias = <<>>
    /\ evaluaciones = <<>>
    /\ pesos = <<>>
    /\ rendimientos = <<>>
    /\ notificaciones = <<>>
    /\ pc = [p \in Procs |-> "idle"]
    /\ loc = [p \in Procs |-> Vacio]
    /\ ult = SinRespuesta
    /\ solapes = 0

NextNotif ==
    \/ \E p \in ProcsSeq : crear(p)
    \/ \E p \in ProcsSeq : actualizar(p)
    \/ \E p \in ProcsSeq : registrar_asistencia_masiva(p)
    \/ \E p \in ProcsSeq : registrar_participacion_masiva(p)
    \/ \E p \in ProcsSeq : registrar_evaluaciones_masiva(p)
    \/ \E p \in ProcsSeq : verificar_notificaciones_evaluacion(p)
    \/ \E p \in ProcsSeq : reenviar_notificaciones_calificaciones_bajas(p)
    \/ \E p \in ProcsSeq : crear_notificacion_admin(p)
    \/ Retornar

SpecNotif == InitNotif /\ [][NextNotif]_vars

---------------------------------------------------------------------------
(* Properties *)

\* an 'activa' session of this docente, curso and materia
HayActiva(docente_id, curso_id, materia_id) ==
    \E i \in Ids(sesiones) :
        /\ sesiones[i].docente_id = docente_id
        /\ sesiones[i].curso_id = curso_id
        /\ sesiones[i].materia_id = materia_id
        /\ sesiones[i].estado = "activa"

\* C1: in every reachable state, also under interleaved crear_sesion_asistencia
\* calls, at most one 'activa' session exists per (docente, curso, materia)
C1_UnaActivaPorTriple ==
    \A i, j \in Ids(sesiones) :
        ( /\ i # j
          /\ sesiones[i].estado = "activa"
          /\ sesiones[j].estado = "activa"
          /\ sesiones[i].docente_id = sesiones[j].docente_id
          /\ sesiones[i].curso_id = sesiones[j].curso_id ) =>
            sesiones[i].materia_id # sesiones[j].materia_id

\* the step in which request p calls crear_sesion_asistencia, and its input
LlamaCrear(p) ==
    /\ pc[p] = "idle"
    /\ \/ pc'[p] = "crear_insertar"
       \/ Libre /\ pc'[p] = "idle" /\ ult'.op = "crear"

EntradaCrear(p) ==
    IF pc'[p] = "crear_insertar"
    THEN [datos |-> loc'[p].datos, docente_id |-> loc'[p].docente_id]
    ELSE ult'.arg

\* C2: crear_sesion_asistencia called while an 'activa' session of the same
\* (docente, curso, materia) exists fails with the conflict error and leaves
\* the store unchanged
C2_ConflictoSinCambios ==
    [][\A p \in ProcsSeq :
        ( /\ LlamaCrear(p)
          /\ HayActiva(EntradaCrear(p).docente_id,
                       EntradaCrear(p).datos.curso_id,
                       EntradaCrear(p).datos.materia_id) ) =>
            /\ pc'[p] = "idle"
            /\ ult'.res = "conflict"
            /\ store' = store]_vars

C2_Witness == ult.op = "crear" /\ ult.res = "conflict" /\ Len(sesiones) = 1

\* the rows of AsistenciaEstudiante of a session
RegistrosSesion(sid) == {i \in Ids(asistencias) : asistencias[i].sesion_id = sid}

C4_SesionConRegistros ==
    \A sid \in Ids(sesiones) :
        \A e \in Estudiantes :
            <<e, sesiones[sid].curso_id>> \in Inscripciones =>
                \E i \in RegistrosSesion(sid) : asistencias[i].estudiante_id = e

\* the step in which request p calls cerrar_sesion_asistencia, and its session
LlamaCerrar(p) ==
    /\ pc[p] = "idle"
    /\ \/ pc'[p] = "cerrar_commit"
       \/ Libre /\ pc'[p] = "idle" /\ ult'.op = "cerrar"

SesionCerrar(p) == IF pc'[p] = "cerrar_commit" THEN loc'[p].sid ELSE ult'.sid

\* C5: cerrar_sesion_asistencia on a session that is not 'activa' fails with
\* the state error and changes nothing: estado, fecha_fin and the ledger rows
\* stay as they were
C5_CierreRepetido ==
    [][\A p \in ProcsSeq :
        ( /\ LlamaCerrar(p)
          /\ SesionCerrar(p) \in Ids(sesiones)
          /\ sesiones[SesionCerrar(p)].estado # "activa" ) =>
            /\ pc'[p] = "idle"
            /\ ult'.res = "state_error"
            /\ store' = store]_vars

C5_Witness ==
    /\ ult.op = "cerrar" /\ ult.res = "state_error"
    /\ sesiones[ult.sid].estado = "cerrada"
    /\ Len(evaluaciones) = 2

ValorTabla(presente, es_tardanza, justificado) ==
    CASE presente /\ ~es_tardanza -> 100
      [] presente /\ es_tardanza -> 50
      [] ~presente /\ justificado -> 75
      [] ~presente /\ ~justificado -> 0

\* the Attendance ledger rows of a student for the subject, period and day of a session
FilasAsistencia(est, sid) ==
    {j \in Ids(evaluaciones) :
        /\ evaluaciones[j].estudiante_id = est
        /\ evaluaciones[j].materia_id = sesiones[sid].materia_id
        /\ evaluaciones[j].periodo_id = sesiones[sid].periodo_id
        /\ evaluaciones[j].tipo_evaluacion_id = IdAsistencia
        /\ evaluaciones[j].fecha = Fecha(sesiones[sid].fecha_inicio)}

\* C7: a successful cerrar_sesion_asistencia leaves, for every record of the
\* session, an Attendance ledger value given by the record's flags: 100, 50,
\* 75 or 0
C7_ValorPorRegistro ==
    (ult.op = "cerrar" /\ ult.res = "ok") =>
        \A i \in RegistrosSesion(ult.sid) :
            /\ FilasAsistencia(asistencias[i].estudiante_id, ult.sid) # {}
            /\ \A j \in FilasAsistencia(asistencias[i].estudiante_id, ult.sid) :
                evaluaciones[j].valor =
                    ValorTabla(asistencias[i].presente, asistencias[i].es_tardanza,
                               asistencias[i].justificado)

C7_Witness ==
    /\ ult.op = "cerrar" /\ ult.res = "ok"
    /\ \E i, k \in RegistrosSesion(ult.sid) :
        /\ asistencias[i].presente /\ asistencias[i].es_tardanza
        /\ ~asistencias[k].presente /\ asistencias[k].justificado

\* the key of a ledger row
Clave(e) == <<e.estudiante_id, e.materia_id, e.periodo_id, e.tipo_evaluacion_id, e.fecha>>

UnaFilaPorClave ==
    \A i, j \in Ids(evaluaciones) :
        Clave(evaluaciones[i]) = Clave(evaluaciones[j]) => i = j

\* C8: reconciliation is an upsert on (student, subject, period, Attendance,
\* date): the ledger never holds two rows of one key, rows keep their key, and
\* a close adds a row only for a key the ledger did not hold
C8_UpsertPorClave ==
    [][/\ UnaFilaPorClave'
       /\ Len(evaluaciones') >= Len(evaluaciones)
       /\ \A i \in Ids(evaluaciones) :
            Clave(evaluaciones'[i]) = Clave(evaluaciones[i])
       /\ \A j \in Ids(evaluaciones') \ Ids(evaluaciones) :
            \A i \in Ids(evaluaciones) :
                Clave(evaluaciones[i]) # Clave(evaluaciones'[j])]_vars

\* two closed sessions of one subject, period and day, both with records, and
\* the second close has changed the value the first one wrote
C8_Witness ==
    /\ ult.op = "cerrar" /\ ult.res = "ok" /\ ult.sid = 2
    /\ sesiones[1].estado = "cerrada"
    /\ Fecha(sesiones[1].fecha_inicio) = Fecha(sesiones[2].fecha_inicio)
    /\ Len(evaluaciones) = 2
    /\ \E i \in RegistrosSesion(1), k \in RegistrosSesion(2) :
        /\ asistencias[i].estudiante_id = asistencias[k].estudiante_id
        /\ asistencias[i].presente /\ ~asistencias[i].es_tardanza
        /\ ~asistencias[k].presente /\ ~asistencias[k].justificado
        /\ \A j \in FilasAsistencia(asistencias[k].estudiante_id, 2) :
            evaluaciones[j].valor = 0

\* C9: without the 'Asistencia' type, cerrar_sesion_asistencia on an 'activa'
\* session fails with the configuration error and persists nothing: the
\* session stays 'activa' with no fecha_fin, the ledger is untouched
C9_CierreTodoONada ==
    [][\A p \in ProcsSeq :
        ( /\ LlamaCerrar(p)
          /\ SesionCerrar(p) \in Ids(sesiones)
          /\ sesiones[SesionCerrar(p)].estado = "activa"
          /\ "Asistencia" \notin tipos ) =>
            /\ pc'[p] = "idle"
            /\ ult'.res = "config_error"
            /\ store' = store
            /\ sesiones'[SesionCerrar(p)].estado = "activa"
            /\ sesiones'[SesionCerrar(p)].fecha_fin = Nulo]_vars

C9_Witness ==
    /\ ult.op = "cerrar" /\ ult.res = "config_error"
    /\ sesiones[ult.sid].estado = "activa"
    /\ \E i \in RegistrosSesion(ult.sid) : asistencias[i].presente

\* C10: marcar_asistencia_estudiante for a student without a record in the
\* session fails with a not-found error whatever the state of the session,
\* and the state error is reported only when session and record both exist.
\* Stated for the stores in which every session has its initial records, so
\* that the student without a record is one who is not enrolled in the course
C10_ExistenciaPrimero ==
    (ult.op = "marcar" /\ C4_SesionConRegistros) =>
        /\ AsistenciaDe(ult.sid, ult.est) = 0 =>
                ult.res \in {"sesion_no_encontrada", "estudiante_no_encontrado"}
        /\ ult.res = "no_activa" =>
                ult.sid \in Ids(sesiones) /\ AsistenciaDe(ult.sid, ult.est) # 0

\* the step in which request p calls marcar_asistencia_estudiante, and its input
LlamaMarcar(p) ==
    /\ pc[p] = "idle"
    /\ \/ pc'[p] = "marcar_commit"
       \/ Libre /\ pc'[p] = "idle" /\ ult'.op = "marcar"

EntradaMarcar(p) ==
    IF pc'[p] = "marcar_commit"
    THEN [sid |-> loc'[p].sid, est |-> loc'[p].est, lat |-> loc'[p].lat]
    ELSE [sid |-> ult'.sid, est |-> ult'.est, lat |-> ult'.arg]

\* section 4.3: estado is 'activa' and the tolerance window has not passed
Viva(sid) ==
    /\ sesiones[sid].estado = "activa"
    /\ now <= sesiones[sid].fecha_inicio + sesiones[sid].minutos_tolerancia

\* C11: marcar_asistencia_estudiante on a session that is closed, or whose
\* tolerance window has passed, fails with the state error and leaves the
\* attendance records unchanged; a call goes on to mark the record only if
\* the session is live
C11_SoloSesionViva ==
    [][\A p \in ProcsSeq :
        ( /\ LlamaMarcar(p)
          /\ EntradaMarcar(p).sid \in Ids(sesiones)
          /\ ~Viva(EntradaMarcar(p).sid) ) =>
            /\ pc'[p] = "idle"
            /\ ult'.res = "no_activa"
            /\ store' = store]_vars

\* a check-in refused on a closed session in which the student has a record
C11_Witness ==
    /\ ult.op = "marcar" /\ ult.res = "no_activa"
    /\ sesiones[ult.sid].estado = "cerrada"
    /\ now <= sesiones[ult.sid].fecha_inicio + sesiones[ult.sid].minutos_tolerancia
    /\ AsistenciaDe(ult.sid, ult.est) # 0
    /\ ~asistencias[AsistenciaDe(ult.sid, ult.est)].presente

\* the call of request p is for a record that is already marked present
YaPresente(p) ==
    /\ LlamaMarcar(p)
    /\ AsistenciaDe(EntradaMarcar(p).sid, EntradaMarcar(p).est) # 0
    /\ asistencias[AsistenciaDe(EntradaMarcar(p).sid, EntradaMarcar(p).est)].presente

\* C12 as stated: every marcar_asistencia_estudiante for a record that a
\* first call has marked fails with the already-marked error and leaves the
\* record as the first call wrote it
C12_SegundaMarcaYaMarcado ==
    [][\A p \in ProcsSeq :
        YaPresente(p) =>
            /\ pc'[p] = "idle"
            /\ ult'.res = "ya_marcado"
            /\ asistencias' = asistencias]_vars

\* C12 amended: a marcar_asistencia_estudiante for a record that a first call
\* has marked always fails and leaves the record as the first call wrote it;
\* the error is the already-marked error while the session is live, and the
\* state error once the session is closed or its tolerance window has passed
C12_SegundaMarcaSinCambios ==
    [][\A p \in ProcsSeq :
        YaPresente(p) =>
            /\ pc'[p] = "idle"
            /\ ult'.res = IF Viva(EntradaMarcar(p).sid) THEN "ya_marcado" ELSE "no_activa"
            /\ asistencias' = asistencias]_vars

\* the second check-in of a student, refused; the record holds the first one
C12_Witness ==
    /\ ult.op = "marcar" /\ ult.res = "ya_marcado"
    /\ asistencias[AsistenciaDe(ult.sid, ult.est)].presente
    /\ asistencias[AsistenciaDe(ult.sid, ult.est)].fecha_marcado = Algun(0)
    /\ now = 1

\* C13: a record's presente goes from FALSE to TRUE once and never back, and
\* also under interleaved check-ins no check-in writes a record that another
\* check-in has already marked
C13_MarcaUnaSolaVez ==
    [][\A i \in Ids(asistencias) :
        asistencias[i].presente =>
            /\ asistencias'[i].presente
            /\ \A p \in Procs :
                ~(pc[p] = "marcar_commit" /\ pc'[p] = "idle" /\ loc[p].aid = i)]_vars

\* the distance between the teacher of the session and the reported position
Distancia(sid, lat) == Abs(lat - sesiones[sid].latitud_docente)

\* C14: a check-in that reaches the location check (session live, record
\* found and not marked) fails with the out-of-range error exactly when the
\* distance is greater than radio_permitido_metros, a distance equal to the
\* radius goes on to mark the record; the out-of-range error is never given
\* for a distance within the radius, and it leaves the records unchanged
C14_FueraDeRango ==
    [][\A p \in ProcsSeq :
        LlamaMarcar(p) =>
            LET sid == EntradaMarcar(p).sid
                aid == AsistenciaDe(sid, EntradaMarcar(p).est)
                lat == EntradaMarcar(p).lat
            IN /\ ( /\ sid \in Ids(sesiones)
                    /\ Viva(sid)
                    /\ aid # 0
                    /\ ~asistencias[aid].presente ) =>
                        IF Distancia(sid, lat) > sesiones[sid].radio_permitido_metros
                        THEN /\ pc'[p] = "idle"
                             /\ ult'.res = "fuera_de_rango"
                             /\ asistencias' = asistencias
                        ELSE pc'[p] = "marcar_commit"
               /\ ( pc'[p] = "idle" /\ ult'.res = "fuera_de_rango" ) =>
                        /\ Distancia(sid, lat) > sesiones[sid].radio_permitido_metros
                        /\ asistencias' = asistencias]_vars

\* a check-in refused for its distance, after one at the edge of the radius
\* was accepted in the same session
C14_Witness ==
    /\ ult.op = "marcar" /\ ult.res = "fuera_de_rango"
    /\ Distancia(ult.sid, ult.arg) = sesiones[ult.sid].radio_permitido_metros + 1
    /\ ~asistencias[AsistenciaDe(ult.sid, ult.est)].presente
    /\ asistencias[AsistenciaDe(ult.sid, ult.est)].distancia_metros = Nulo
    /\ \E i \in RegistrosSesion(ult.sid) :
        /\ asistencias[i].presente
        /\ asistencias[i].distancia_metros = Algun(sesiones[ult.sid].radio_permitido_metros)

\* C15: a successful check-in leaves the record with presente = TRUE, the
\* time of the check-in, and es_tardanza = (that time > fecha_inicio): late
\* is measured from the start of the session, not from the end of the
\* tolerance window
C15_TardanzaDesdeInicio ==
    (ult.op = "marcar" /\ ult.res = "ok") =>
        LET a == asistencias[AsistenciaDe(ult.sid, ult.est)]
        IN /\ a.presente
           /\ a.fecha_marcado = Algun(now)
           /\ a.es_tardanza = (now > sesiones[ult.sid].fecha_inicio)

\* a check-in after the start and within the tolerance window, recorded as late
C15_Witness ==
    /\ ult.op = "marcar" /\ ult.res = "ok"
    /\ sesiones[ult.sid].fecha_inicio < now
    /\ now <= sesiones[ult.sid].fecha_inicio + sesiones[ult.sid].minutos_tolerancia
    /\ asistencias[AsistenciaDe(ult.sid, ult.est)].es_tardanza
    /\ \E i \in RegistrosSesion(ult.sid) :
        asistencias[i].presente /\ ~asistencias[i].es_tardanza

\* the step in which request p calls validar_puede_marcar_asistencia
LlamaValidar(p) == pc[p] = "idle" /\ Libre /\ pc'[p] = "idle" /\ ult'.op = "validar"

\* C16: on the same store, at the same time and for the same inputs,
\* validar_puede_marcar_asistencia and marcar_asistencia_estudiante reach the
\* same verdict: puede_marcar exactly when the check-in goes on to mark the
\* record, and otherwise the reason the check-in fails with
C16_MismoVeredicto ==
    [][\A p \in ProcsSeq :
        /\ LlamaMarcar(p) =>
                (IF pc'[p] = "marcar_commit" THEN "ok" ELSE ult'.res)
                    = VeredictoValidar(EntradaMarcar(p).sid, EntradaMarcar(p).est,
                                       EntradaMarcar(p).lat)
        /\ LlamaValidar(p) =>
                /\ ult'.res = VeredictoMarcar(ult'.sid, ult'.est, ult'.arg)
                /\ store' = store]_vars

\* the pre-flight check of a student who is already marked and now out of range
C16_Witness ==
    /\ ult.op = "validar" /\ ult.res = "ya_marcado"
    /\ Distancia(ult.sid, ult.arg) > sesiones[ult.sid].radio_permitido_metros

\* what a computation was asked for, read from its response
Pedido == [estudiante_id |-> ult.est, materia_id |-> ult.arg.materia_id,
           periodo_id |-> ult.arg.periodo_id, gestion_id |-> ult.arg.gestion_id,
           docente_id |-> ult.arg.docente_id]

\* the ledger rows of the student, subject and period asked for, of one category
FilasCategoria(t) ==
    {i \in Ids(evaluaciones) :
        /\ evaluaciones[i].estudiante_id = Pedido.estudiante_id
        /\ evaluaciones[i].materia_id = Pedido.materia_id
        /\ evaluaciones[i].periodo_id = Pedido.periodo_id
        /\ evaluaciones[i].tipo_evaluacion_id = t}

\* the weights the teacher asked for has assigned to a category for the
\* subject and cycle
PesosCategoria(t) ==
    {pesos[i].porcentaje : i \in {j \in Ids(pesos) :
        /\ pesos[j].docente_id = Pedido.docente_id
        /\ pesos[j].materia_id = Pedido.materia_id
        /\ pesos[j].gestion_id = Pedido.gestion_id
        /\ pesos[j].tipo_evaluacion_id = t}}

\* a category counts when it has a ledger row and a weight
Cuenta(t) == FilasCategoria(t) # {} /\ PesosCategoria(t) # {}

PesoCategoria(t) == CHOOSE w \in PesosCategoria(t) : TRUE

\* the number of rows of a category that counts; 1 for one that does not
Divisor(t) == IF Cuenta(t) THEN Cardinality(FilasCategoria(t)) ELSE 1

\* numerator of the weighted score of a category that counts, over Divisor(t),
\* in hundredths: total * weight / rows, where total / rows is the category score
Ponderado(t, total) == IF Cuenta(t) THEN total * PesoCategoria(t) ELSE 0

\* nota (in hundredths) is the fraction num / den rounded to the nearest
EsRedondeo(nota, num, den) == 2 * Abs(nota * den - num) <= den

\* C17: the final score a computation returns is the sum, over the categories
\* with a ledger row and a weight, of category score * weight / 100, rounded
\* to two decimals, the category score being the mean of the rows; with
\* weights 50 and 50 and scores 80 and 60 it is 70.00
C17_NotaFinalPonderada ==
    (ult.op = "calcular" /\ ult.res = "ok") =>
        LET A == IdAsistencia
            B == IdParticipacion
            num == Ponderado(A, Suma(evaluaciones, FilasCategoria(A))) * Divisor(B)
                   + Ponderado(B, Suma(evaluaciones, FilasCategoria(B))) * Divisor(A)
        IN /\ EsRedondeo(ult.arg.nota_final, num, Divisor(A) * Divisor(B))
           /\ ( /\ Cuenta(A) /\ Cuenta(B)
                /\ PesoCategoria(A) = 50 /\ PesoCategoria(B) = 50
                /\ {Suma(evaluaciones, FilasCategoria(A)) - 80 * Divisor(A),
                    Suma(evaluaciones, FilasCategoria(B)) - 60 * Divisor(B)} = {0} )
                    => ult.arg.nota_final = 7000

\* weights 50 and 50, one category with the single row 80, the other with the
\* rows 60 and 60: 70.00
C17_Witness ==
    /\ ult.op = "calcular" /\ ult.res = "ok"
    /\ Cuenta(IdAsistencia) /\ Cuenta(IdParticipacion)
    /\ PesoCategoria(IdAsistencia) = 50 /\ PesoCategoria(IdParticipacion) = 50
    /\ Cardinality(FilasCategoria(IdAsistencia)) = 1
    /\ Suma(evaluaciones, FilasCategoria(IdAsistencia)) = 80
    /\ Cardinality(FilasCategoria(IdParticipacion)) = 2
    /\ Suma(evaluaciones, FilasCategoria(IdParticipacion)) = 120
    /\ ult.arg.nota_final = 7000

\* the Attendance rows asked for whose value is at least 1
Presentes == {i \in FilasCategoria(IdAsistencia) : evaluaciones[i].valor >= 1}

\* C18: in the final score the Attendance category enters with the presence
\* rate, 100 * (rows with value >= 1) / (rows), times its weight / 100, and
\* every other category with the mean of its rows
C18_AsistenciaPorTasa ==
    (ult.op = "calcular" /\ ult.res = "ok") =>
        LET A == IdAsistencia
            B == IdParticipacion
            num == Ponderado(A, 100 * Cardinality(Presentes)) * Divisor(B)
                   + Ponderado(B, Suma(evaluaciones, FilasCategoria(B))) * Divisor(A)
        IN EsRedondeo(ult.arg.nota_final, num, Divisor(A) * Divisor(B))

\* the final score of the computation asked for, over another ledger
NotaCon(evals) ==
    NotaFinal(evals, Pedido.estudiante_id, Pedido.materia_id, Pedido.periodo_id,
              Pedido.gestion_id, Pedido.docente_id)

\* the ledger without its row i
SinFila(evals, i) ==
    [k \in 1..(Len(evals) - 1) |-> IF k < i THEN evals[k] ELSE evals[k + 1]]

\* C19: a category without a weight of the teacher for the subject and cycle
\* is left out without an error: a ledger row of it added, removed or changed
\* leaves the final score as it is, and when no category has a weight the
\* final score is 0
C19_SinPesoExcluida ==
    (ult.op = "calcular") =>
        /\ ult.res = "ok"
        /\ \A t \in {IdAsistencia, IdParticipacion} :
            PesosCategoria(t) = {} =>
                /\ \A e \in EntradasLedger :
                    e.tipo_evaluacion_id = t =>
                        NotaCon(Append(evaluaciones, e)) = ult.arg.nota_final
                /\ \A i \in Ids(evaluaciones) :
                    evaluaciones[i].tipo_evaluacion_id = t =>
                        /\ NotaCon(SinFila(evaluaciones, i)) = ult.arg.nota_final
                        /\ \A v \in Valores :
                            NotaCon([evaluaciones EXCEPT ![i].valor = v])
                                = ult.arg.nota_final
        /\ (\A t \in {IdAsistencia, IdParticipacion} : PesosCategoria(t) = {}) =>
                ult.arg.nota_final = 0

\* a computation over a ledger with rows of a category that has no weight,
\* next to a category that has one and gives a score above 0
C19_Witness ==
    /\ ult.op = "calcular" /\ ult.res = "ok"
    /\ PesosCategoria(IdParticipacion) = {}
    /\ \E i \in FilasCategoria(IdParticipacion) : evaluaciones[i].valor > 0
    /\ Cuenta(IdAsistencia)
    /\ ult.arg.nota_final > 0

\* the RendimientoFinal rows of a student, subject and period
FilasRendimiento(rends, estudiante_id, materia_id, periodo_id) ==
    {i \in Ids(rends) :
        /\ rends[i].estudiante_id = estudiante_id
        /\ rends[i].materia_id = materia_id
        /\ rends[i].periodo_id = periodo_id}

UnaFilaPorRendimiento ==
    \A i, j \in Ids(rendimientos) :
        ( /\ rendimientos[i].estudiante_id = rendimientos[j].estudiante_id
          /\ rendimientos[i].materia_id = rendimientos[j].materia_id
          /\ rendimientos[i].periodo_id = rendimientos[j].periodo_id ) => i = j

\* C20: the result is upserted: RendimientoFinal never holds two rows of one
\* (student, subject, period); a computation leaves the row of its key with
\* the nota_final it returns, adds a row only when the key had none, and
\* leaves every other row as it was; computed again over the same ledger and
\* weights it changes nothing
C20_UpsertRendimiento ==
    [][/\ UnaFilaPorRendimiento'
       /\ Len(rendimientos') >= Len(rendimientos)
       /\ (ult.op = "none" /\ ult'.op = "calcular") =>
            LET antes == FilasRendimiento(rendimientos, ult'.est,
                            ult'.arg.materia_id, ult'.arg.periodo_id)
                despues == FilasRendimiento(rendimientos', ult'.est,
                            ult'.arg.materia_id, ult'.arg.periodo_id)
            IN /\ Cardinality(despues) = 1
               /\ \A i \in despues : rendimientos'[i].nota_final = ult'.arg.nota_final
               /\ Len(rendimientos') = Len(rendimientos) + (IF antes = {} THEN 1 ELSE 0)
               /\ \A i \in Ids(rendimientos) \ antes : rendimientos'[i] = rendimientos[i]
               /\ Guardar(rendimientos', ult'.est, ult'.arg.materia_id,
                          ult'.arg.periodo_id,
                          NotaFinal(evaluaciones', ult'.est, ult'.arg.materia_id,
                                    ult'.arg.periodo_id, ult'.arg.gestion_id,
                                    ult'.arg.docente_id)) = rendimientos'
       /\ (ult.op = "none" /\ ult'.op = "calcular_todos") =>
            /\ \A i \in Ids(rendimientos) :
                rendimientos[i].estudiante_id # ult'.est =>
                    rendimientos'[i] = rendimientos[i]
            /\ \A i \in Ids(rendimientos') :
                rendimientos'[i].estudiante_id = ult'.est =>
                    rendimientos'[i].nota_final =
                        NotaFinal(evaluaciones, ult'.est, rendimientos'[i].materia_id,
                                  ult'.arg.periodo_id, ult'.arg.gestion_id,
                                  ult'.arg.docente_id)]_vars

\* the row of the first student computed again, for a teacher with weights,
\* after the row of the second student was added; its nota_final overwritten
C20_Witness ==
    /\ ult.op = "calcular" /\ ult.res = "ok"
    /\ Len(rendimientos) = 2
    /\ rendimientos[1].estudiante_id = ult.est
    /\ rendimientos[1].nota_final = ult.arg.nota_final
    /\ ult.arg.nota_final > 0
    /\ rendimientos[2].nota_final > 0

\* the session is the only one of its subject, period and day, so that no
\* other session writes the ledger rows of its students
UnicaDelDia(sid) ==
    \A k \in Ids(sesiones) :
        ( /\ sesiones[k].materia_id = sesiones[sid].materia_id
          /\ sesiones[k].periodo_id = sesiones[sid].periodo_id
          /\ Fecha(sesiones[k].fecha_inicio) = Fecha(sesiones[sid].fecha_inicio) ) => k = sid

\* C27: for every closed session and every record of it, in every state
\* after the close, also after justificar_ausencia on a record of the closed
\* session, the Attendance ledger row of the student for the subject, period
\* and day of the session holds the value the table gives for the record's
\* present flags
C27_LedgerSigueAlRegistro ==
    \A sid \in Ids(sesiones) :
        (sesiones[sid].estado = "cerrada" /\ UnicaDelDia(sid)) =>
            \A i \in RegistrosSesion(sid) :
                /\ FilasAsistencia(asistencias[i].estudiante_id, sid) # {}
                /\ \A j \in FilasAsistencia(asistencias[i].estudiante_id, sid) :
                    evaluaciones[j].valor =
                        ValorTabla(asistencias[i].presente, asistencias[i].es_tardanza,
                                   asistencias[i].justificado)

\* C28: under any interleaving of a check-in with the close of the same
\* session, once no request is in flight, a record with presente = TRUE in a
\* closed session has an Attendance ledger value of 100 or 50, never 0 or 75
C28_MarcaReflejadaEnLedger ==
    (\A p \in Procs : pc[p] = "idle") =>
        \A sid \in Ids(sesiones) :
            (sesiones[sid].estado = "cerrada" /\ UnicaDelDia(sid)) =>
                \A i \in RegistrosSesion(sid) :
                    asistencias[i].presente =>
                        /\ FilasAsistencia(asistencias[i].estudiante_id, sid) # {}
                        /\ \A j \in FilasAsistencia(asistencias[i].estudiante_id, sid) :
                            evaluaciones[j].valor \in {100, 50}

\* the weights of the teacher asked for, one per category, sum to at most 100
PesosHasta100 ==
    LET w(t) == IF PesosCategoria(t) = {} THEN 0 ELSE PesoCategoria(t)
    IN /\ \A i \in Ids(pesos) : pesos[i].porcentaje >= 0
       /\ w(IdAsistencia) + w(IdParticipacion) <= 100

\* C30: with every ledger value in 0..100 and the weights of the teacher
\* non-negative and summing to at most 100, the nota_final that
\* calcular_rendimiento_final stores lies in 0..100 (0..10000 hundredths)
C30_NotaEnRango ==
    ( /\ ult.op = "calcular" /\ ult.res = "ok"
      /\ \A i \in Ids(evaluaciones) : evaluaciones[i].valor \in 0..100
      /\ PesosHasta100 ) =>
        \A i \in FilasRendimiento(rendimientos, ult.est, ult.arg.materia_id,
                                  ult.arg.periodo_id) :
            /\ rendimientos[i].nota_final = ult.arg.nota_final
            /\ rendimientos[i].nota_final \in 0..10000

\* weights 50 and 50, and every row of both categories at the highest value
C30_Witness ==
    /\ ult.op = "calcular" /\ ult.res = "ok"
    /\ Cuenta(IdAsistencia) /\ Cuenta(IdParticipacion)
    /\ PesoCategoria(IdAsistencia) + PesoCategoria(IdParticipacion) = 100
    /\ Cardinality(FilasCategoria(IdAsistencia)) = 2
    /\ \A i \in Ids(evaluaciones) : evaluaciones[i].valor = 80
    /\ \E i \in Ids(rendimientos) : rendimientos[i].nota_final = 8000

\* the guardians linked to a student
Tutores(estudiante_id) == {pe[1] : pe \in {x \in PadreEstudiantes : x[2] = estudiante_id}}

\* the 'calificacion_baja' rows of a guardian for an evaluation, in a table
Avisos(nots, padre_id, evaluacion_id) ==
    {i \in Ids(nots) :
        /\ nots[i].padre_id = padre_id
        /\ nots[i].evaluacion_id = evaluacion_id
        /\ nots[i].tipo = "calificacion_baja"}

\* the step in which the trigger is called for an evaluation of the ledger
LlamaVerificar ==
    /\ Libre
    /\ ult'.op = "verificar"
    /\ ult'.arg.evaluacion_id \in Ids(evaluaciones)

\* the rows the step adds to the table of notifications
Creadas == Ids(notificaciones') \ Ids(notificaciones)

\* the ids a call of the trigger returns
Devueltas == {ult'.arg.ids[k] : k \in DOMAIN ult'.arg.ids}

\* C21: a call of the trigger in which no creation fails, on an evaluation
\* below the threshold that has no low-grade notification yet, adds exactly one
\* 'calificacion_baja' row for each guardian of the student and returns exactly
\* the ids of those rows; on an evaluation at or above the threshold it adds
\* none and returns an empty list
C21_UnaPorTutor ==
    [][(LlamaVerificar /\ ~ult'.arg.fallo) =>
        LET e == ult'.arg.evaluacion_id
            est == evaluaciones[e].estudiante_id
        IN /\ (/\ evaluaciones[e].valor < ult'.arg.umbral
               /\ \A padre \in Padres : Avisos(notificaciones, padre, e) = {}) =>
                    /\ \A i \in Ids(notificaciones) : notificaciones'[i] = notificaciones[i]
                    /\ \A padre \in Tutores(est) :
                            Cardinality(Avisos(notificaciones', padre, e)) = 1
                    /\ \A i \in Creadas :
                            /\ notificaciones'[i].padre_id \in Tutores(est)
                            /\ notificaciones'[i].estudiante_id = est
                            /\ notificaciones'[i].evaluacion_id = e
                            /\ notificaciones'[i].tipo = "calificacion_baja"
                    /\ Devueltas = Creadas
                    /\ Len(ult'.arg.ids) = Cardinality(Creadas)
           /\ evaluaciones[e].valor >= ult'.arg.umbral =>
                    /\ notificaciones' = notificaciones
                    /\ ult'.arg.ids = <<>>]_vars

\* the trigger has created and returned a row for each of the two guardians
C21_Witness ==
    /\ ult.op = "verificar" /\ ~ult.arg.fallo
    /\ Len(ult.arg.ids) = 2
    /\ evaluaciones[ult.arg.evaluacion_id].valor < ult.arg.umbral

\* C22: a call of the trigger for an evaluation whose guardians all have their
\* low-grade notification already, as a first call leaves them, adds no row
\* and returns an empty list
C22_SegundaLlamadaSinCambios ==
    [][(/\ LlamaVerificar
        /\ \A padre \in Tutores(evaluaciones[ult'.arg.evaluacion_id].estudiante_id) :
                Avisos(notificaciones, padre, ult'.arg.evaluacion_id) # {}) =>
            /\ notificaciones' = notificaciones
            /\ ult'.arg.ids = <<>>]_vars

\* the trigger has run again on a low evaluation of a student with guardians
\* and returned nothing
C22_Witness ==
    /\ ult.op = "verificar" /\ ult.arg.ids = <<>>
    /\ ult.arg.evaluacion_id \in Ids(evaluaciones)
    /\ evaluaciones[ult.arg.evaluacion_id].valor < ult.arg.umbral
    /\ Tutores(evaluaciones[ult.arg.evaluacion_id].estudiante_id) # {}
    /\ \A padre \in Tutores(evaluaciones[ult.arg.evaluacion_id].estudiante_id) :
            Cardinality(Avisos(notificaciones, padre, ult.arg.evaluacion_id)) = 1

\* C23: at most one notification per guardian, evaluation and tipo
\* 'calificacion_baja'
C23_UnAvisoPorTutorYEvaluacion ==
    \A i, j \in Ids(notificaciones) :
        (/\ notificaciones[i].tipo = "calificacion_baja"
         /\ notificaciones[j].tipo = "calificacion_baja"
         /\ notificaciones[i].padre_id = notificaciones[j].padre_id
         /\ notificaciones[i].evaluacion_id = notificaciones[j].evaluacion_id) => i = j

\* C24: when the creation fails for one guardian the call still leaves every
\* other guardian of the student with a notification for the evaluation, and
\* returns the ids of all the rows it created
C24_FalloAislado ==
    [][(LlamaVerificar /\ ult'.arg.fallo) =>
        LET e == ult'.arg.evaluacion_id
        IN /\ \A padre \in Tutores(evaluaciones[e].estudiante_id) \ {ult'.arg.falla} :
                Avisos(notificaciones', padre, e) # {}
           /\ Devueltas = Creadas]_vars

\* C25: once a write of the ledger has completed, every row below 50 of a
\* student with guardians has a low-grade notification for each guardian
C25_EscrituraBajaNotificada ==
    (Libre /\ \A p \in Procs : pc[p] = "idle") =>
        \A i \in Ids(evaluaciones) :
            evaluaciones[i].valor < 50 =>
                \A padre \in Tutores(evaluaciones[i].estudiante_id) :
                    Avisos(notificaciones, padre, i) # {}

\* a bulk registration
Masivas == {"asistencia_masiva", "participacion_masiva", "evaluaciones_masiva"}

\* C26: a bulk registration that is rejected for an invalid element leaves the
\* ledger and the notifications as they were, whatever valid elements precede
\* the invalid one
C26_ValidacionAntesDeMutar ==
    [][(Libre /\ ult'.op \in Masivas /\ ult'.res = "invalido") =>
            /\ evaluaciones' = evaluaciones
            /\ notificaciones' = notificaciones]_vars

\* a bulk registration rejected at its second element, the first one valid
C26_Witness ==
    /\ ult.op \in Masivas /\ ult.res = "invalido"
    /\ ult.arg.pendientes = 1
    /\ Len(evaluaciones) = ult.arg.antes

\* C29: after a bulk registration every row it created with a value below 50,
\* of a student with guardians, has a low-grade notification of each guardian
\* that carries the id of that row
C29_AvisoDeLaFilaCreada ==
    (ult.op \in Masivas /\ ult.res = "ok") =>
        \A i \in (ult.arg.antes + 1)..Len(evaluaciones) :
            evaluaciones[i].valor < 50 =>
                \A padre \in Tutores(evaluaciones[i].estudiante_id) :
                    Avisos(notificaciones, padre, i) # {}

====
